---- MODULE Spec2Model ----
(***************************************************************************)
(* Attendance state machine of arijentek_core: Employee Checkin rows       *)
(* written by the clock endpoints, and the Attendance records derived from *)
(* them by attendance/sync.py; the leave and payslip endpoints; and the    *)
(* day counts of payroll/calculator.py.                                    *)
(*                                                                         *)
(* One employee is modelled.  Time is counted in whole hours since         *)
(* midnight of day 0; all clock reads of one request (nowdate(),           *)
(* now_datetime()) return the same instant.  At this granularity           *)
(* round(working_hours, 2) changes nothing.                                *)
(***************************************************************************)
EXTENDS Integers, Sequences, FiniteSets, TLC

VARIABLES
    now,            \* the wall clock, in hours
    checkins,       \* table `tabEmployee Checkin`, in insertion order
    attendance,     \* table `tabAttendance`, in insertion order
    resp,           \* what the last request returned
    default_shift,  \* Employee.default_shift is set
    half_day_leave, \* dates covered by an approved, submitted half-day Leave Application
    eval,           \* last evaluation of determine_attendance_status
    attendance_write_raises, \* the framework rejects a write to `tabAttendance`
    error_log,      \* table `tabError Log`: the titles frappe.log_error stored
    synced,         \* the dates sync_date_range handed to the sync, in order
    inflight,       \* requests that have read the checkins and not yet inserted
    leave_types,    \* table `tabLeave Type`: the names, and the ones with is_lwp = 1
    leave_allocations,  \* table `tabLeave Allocation`
    leave_applications, \* table `tabLeave Application`
    salary_slips,   \* table `tabSalary Slip`: the months that have a slip
    salary_structure_assignment, \* a submitted Salary Structure Assignment exists
    payroll         \* a PayrollCalculator and what was computed from it

\* what the attendance endpoints never write
other ==
    <<synced, inflight, leave_types, leave_allocations, leave_applications,
      salary_slips, salary_structure_assignment, payroll>>

vars ==
    <<now, checkins, attendance, resp, default_shift, half_day_leave, eval,
      attendance_write_raises, error_log, other>>

----------------------------------------------------------------------------
\* Bounds of the model

\* hours the clock advances between two requests
TickHours == 4
\* last instant of the model
MaxNow == 28
\* rows the checkin table may hold
MaxCheckins == 3
\* rows the attendance table may hold
MaxAttendance == 4
\* largest working_hours given to determine_attendance_status on its own
MaxHours == 24
\* latest from_date given to sync_date_range
MaxFromDate == 1
\* rows the error log may hold
MaxErrorLog == 2
\* requests of the employee that run at the same time
MaxRequests == 2
\* rows the leave application table may hold
MaxLeaveApplications == 2
\* last month a payslip is asked for
MaxMonth == 2
\* Attendance rows of the pay period given to the payroll calculator
MaxAttendanceRows == 2

----------------------------------------------------------------------------
\* Program constants

MAX_SHIFT_HOURS == 12

max_future_seconds == 5

\* "Date range cannot exceed 31 days per request"
RangeLimitDays == 31

----------------------------------------------------------------------------
\* Dates and time

\* getdate(datetime), SQL DATE(time)
DateOf(t) == t \div 24

\* the datetime a bare date stands for: midnight
Midnight(d) == d * 24

Min(S) == CHOOSE x \in S : \A y \in S : x <= y

Max(S) == CHOOSE x \in S : \A y \in S : x >= y

Dates == 0 .. DateOf(MaxNow)

----------------------------------------------------------------------------
\* Queries on `tabEmployee Checkin`

\* WHERE employee = %s AND DATE(time) = %s
TodayCheckins(cks, today) == SelectSeq(cks, LAMBDA c : DateOf(c.time) = today)

\* {"time": ["between", [today, f"{today} 23:59:59"]], "log_type": lt}
ExistsBetweenToday(cks, today, lt) ==
    \E i \in DOMAIN cks :
        /\ cks[i].log_type = lt
        /\ Midnight(today) <= cks[i].time
        /\ cks[i].time <= Midnight(today) + 23

\* filters {"time": ["between", [date, next_date]]}: the bounds are the two
\* midnights, both included, so a row stored at next_date 00:00 is found too
CheckinsBetween(cks, date) ==
    SelectSeq(cks, LAMBDA c : Midnight(date) <= c.time /\ c.time <= Midnight(date + 1))

Times(logs, lt) == {logs[i].time : i \in {j \in DOMAIN logs : logs[j].log_type = lt}}

----------------------------------------------------------------------------
\* attendance/sync.py

determine_attendance_status_ShiftStrict(shift, leave, working_hours) ==
    IF ~shift
    THEN IF leave THEN "Half Day"
         ELSE IF working_hours >= 8 THEN "Present"
         ELSE IF working_hours >= 4 THEN "Half Day"
         ELSE "Absent"
    ELSE IF working_hours > 8 THEN "Present"
         ELSE IF working_hours > 4 THEN "Half Day"
         ELSE "Absent"

determine_attendance_status(shift, leave, working_hours) ==
    IF ~shift
    THEN IF leave THEN "Half Day"
         ELSE IF working_hours >= 8 THEN "Present"
         ELSE IF working_hours >= 4 THEN "Half Day"
         ELSE "Absent"
    ELSE IF working_hours >= 8 THEN "Present"
         ELSE IF working_hours >= 4 THEN "Half Day"
         ELSE "Absent"

\* frappe.db.exists("Attendance", {..., "docstatus": ["!=", 2]})
ExistingAttendance(att, date) ==
    {i \in DOMAIN att : att[i].attendance_date = date /\ att[i].docstatus # 2}

NoTime == <<>>

create_or_update_attendance_NoCancel(att, date, logs) ==
    LET in_times == Times(logs, "IN")
        out_times == Times(logs, "OUT")
    IN  IF in_times = {} THEN att
        ELSE
        LET first_in == Min(in_times)
            working_hours == IF out_times # {} THEN Max(out_times) - first_in ELSE 0
        IN  Append(att,
                [attendance_date |-> date,
                 status |-> determine_attendance_status(default_shift,
                                date \in half_day_leave, working_hours),
                 working_hours |-> working_hours,
                 in_time |-> <<first_in>>,
                 out_time |-> IF out_times # {} THEN <<Max(out_times)>> ELSE NoTime,
                 docstatus |-> 1])

create_or_update_attendance(att, date, logs) ==
    LET existing == ExistingAttendance(att, date)
        in_times == Times(logs, "IN")
        out_times == Times(logs, "OUT")
    IN  IF in_times = {} THEN att
        ELSE
        LET first_in == Min(in_times)
            working_hours == IF out_times # {} THEN Max(out_times) - first_in ELSE 0
            status == determine_attendance_status(default_shift, date \in half_day_leave,
                                                  working_hours)
            attendance_data ==
                [attendance_date |-> date,
                 status |-> status,
                 working_hours |-> working_hours,
                 in_time |-> <<first_in>>,
                 out_time |-> IF out_times # {} THEN <<Max(out_times)>> ELSE NoTime,
                 docstatus |-> 1]
        IN  IF existing # {}
            THEN LET e == Min(existing)
                 IN  IF att[e].docstatus = 1
                     THEN Append([att EXCEPT ![e].docstatus = 2], attendance_data)
                     ELSE [att EXCEPT ![e] = attendance_data]
            ELSE Append(att, attendance_data)

\* the insert, save, submit and cancel calls of create_or_update_attendance
\* raise when the framework rejects the write; the rejected write is the first
\* one, so the table is left as it was.  Without an IN log nothing is written.
create_or_update_attendance_raises(logs) ==
    attendance_write_raises /\ Times(logs, "IN") # {}

----------------------------------------------------------------------------
\* attendance/auto_attendance.py

_sync_attendance_for_employee(att, cks, date) ==
    LET logs == CheckinsBetween(cks, date)
    IN  IF logs = <<>> THEN att ELSE create_or_update_attendance(att, date, logs)

\* what a function that calls the sync hands back: the table, the titles it
\* logged, and whether an exception leaves it
Synced(att) == [attendance |-> att, logged |-> <<>>, raised |-> FALSE]

Caught(att, title) == [attendance |-> att, logged |-> <<title>>, raised |-> FALSE]

Thrown(att) == [attendance |-> att, logged |-> <<>>, raised |-> TRUE]

sync_attendance_after_clock_NoCatch(att, cks, checkin_time) ==
    IF create_or_update_attendance_raises(CheckinsBetween(cks, DateOf(checkin_time)))
    THEN Thrown(att)
    ELSE Synced(_sync_attendance_for_employee(att, cks, DateOf(checkin_time)))

\* try: _sync_attendance_for_employee(...)  except Exception: frappe.log_error(...)
sync_attendance_after_clock(att, cks, checkin_time) ==
    IF create_or_update_attendance_raises(CheckinsBetween(cks, DateOf(checkin_time)))
    THEN Caught(att, "Auto Attendance Sync Error")
    ELSE Synced(_sync_attendance_for_employee(att, cks, DateOf(checkin_time)))

on_employee_checkin_insert(att, cks, doc) ==
    IF create_or_update_attendance_raises(CheckinsBetween(cks, DateOf(doc.time)))
    THEN Caught(att, "Auto Attendance Error")
    ELSE Synced(_sync_attendance_for_employee(att, cks, DateOf(doc.time)))

----------------------------------------------------------------------------
\* hooks.py

\* the handlers doc_events registers for a doctype and an event
doc_events(doctype, event) ==
    IF doctype \in {"Employee Checkin", "Attendance"} /\ event = "on_submit"
    THEN {"log_attendance_event"}
    ELSE {}

\* checkin.insert(): the row is stored, then the after_insert handlers run
InsertCheckin(att, cks, doc) ==
    LET stored == Append(cks, doc)
        hook == IF "on_employee_checkin_insert"
                        \in doc_events("Employee Checkin", "after_insert")
                THEN on_employee_checkin_insert(att, stored, doc)
                ELSE Synced(att)
    IN  [checkins |-> stored, attendance |-> hook.attendance, logged |-> hook.logged]

----------------------------------------------------------------------------
\* Bounds on the tables: a request that stores a row needs room for it

Room == Len(checkins) < MaxCheckins /\ Len(attendance) < MaxAttendance

Reply(op, ok, lt) == [op |-> op, ok |-> ok, log_type |-> lt]

Refuse(op) ==
    /\ resp' = Reply(op, FALSE, "none")
    /\ UNCHANGED <<now, checkins, attendance, default_shift, half_day_leave, eval,
                   attendance_write_raises, error_log, other>>

\* insert, commit, sync_attendance_after_clock, success reply; an exception
\* that leaves the sync reaches the endpoint's except clause, after the commit
RecordRows(op, t, lt) ==
    LET ins == InsertCheckin(attendance, checkins, [time |-> t, log_type |-> lt])
        sync == sync_attendance_after_clock(ins.attendance, ins.checkins, t)
    IN  /\ Room
        /\ checkins' = ins.checkins
        /\ attendance' = sync.attendance
        /\ error_log' = error_log \o ins.logged \o sync.logged
        /\ resp' = IF sync.raised THEN Reply(op, FALSE, "none") ELSE Reply(op, TRUE, lt)
        /\ UNCHANGED <<now, default_shift, half_day_leave, eval, attendance_write_raises>>

\* a request that runs from its reads to its reply with no other in between
Record(op, t, lt) == RecordRows(op, t, lt) /\ UNCHANGED other

----------------------------------------------------------------------------
\* api/__init__.py: the portal clock endpoints

clock_in_existing_in_None(today) == FALSE

clock_in_existing_in(today) == ExistsBetweenToday(checkins, today, "IN")

ClockIn ==
    LET today == DateOf(now)
    IN  IF clock_in_existing_in(today)
        THEN Refuse("clock_in")
        ELSE Record("clock_in", now, "IN")

clock_out_in_checkin_AnyDay(today) ==
    LET ts == Times(checkins, "IN")
    IN  IF ts = {} THEN {} ELSE {Min(ts)}

\* SELECT time ... AND log_type = 'IN' ORDER BY time ASC LIMIT 1
clock_out_in_checkin(today) ==
    LET ts == Times(TodayCheckins(checkins, today), "IN")
    IN  IF ts = {} THEN {} ELSE {Min(ts)}

ClockOut ==
    LET today == DateOf(now)
        in_checkin == clock_out_in_checkin(today)
    IN  IF in_checkin = {}
        THEN Refuse("clock_out")
        ELSE IF ExistsBetweenToday(checkins, today, "OUT")
        THEN Refuse("clock_out")
        ELSE IF now - Min(in_checkin) > MAX_SHIFT_HOURS
        THEN Refuse("clock_out")
        ELSE Record("clock_out", now, "OUT")

punch_log_type_NoCompleted(has_in, has_out) == IF ~has_in THEN "IN" ELSE "OUT"

punch_log_type(has_in, has_out) ==
    IF has_in /\ has_out THEN "none"
    ELSE IF ~has_in THEN "IN"
    ELSE "OUT"

Punch ==
    LET today == DateOf(now)
        today_checkins == TodayCheckins(checkins, today)
        has_in == Times(today_checkins, "IN") # {}
        has_out == Times(today_checkins, "OUT") # {}
        log_type == punch_log_type(has_in, has_out)
    IN  IF log_type = "none"
        THEN Refuse("punch")
        ELSE IF log_type = "OUT" /\ now - Min(Times(today_checkins, "IN")) > MAX_SHIFT_HOURS
        THEN Refuse("punch")
        ELSE Record("punch", now, log_type)

----------------------------------------------------------------------------
\* api/__init__.py: clock_in and punch as the web workers run them, several
\* requests of the employee at a time.  A request reads the checkins, and
\* inserts in a later step; nothing in the code locks between the two.

\* the request has read and decided to insert; it is now before its try block
Begin(r, op, lt) ==
    /\ inflight' = inflight \cup {[id |-> r, op |-> op, log_type |-> lt]}
    /\ UNCHANGED <<now, checkins, attendance, resp, default_shift, half_day_leave, eval,
                   attendance_write_raises, error_log, synced, leave_types,
                   leave_allocations, leave_applications, salary_slips,
                   salary_structure_assignment, payroll>>

\* clock_in up to its existing_in check
ClockInRead(r) ==
    /\ \A q \in inflight : q.id # r
    /\ IF clock_in_existing_in(DateOf(now))
       THEN Refuse("clock_in")
       ELSE Begin(r, "clock_in", "IN")

\* punch up to its choice of log_type
PunchRead(r) ==
    LET today == DateOf(now)
        today_checkins == TodayCheckins(checkins, today)
        has_in == Times(today_checkins, "IN") # {}
        has_out == Times(today_checkins, "OUT") # {}
        log_type == punch_log_type(has_in, has_out)
    IN  /\ \A q \in inflight : q.id # r
        /\ IF log_type = "none"
           THEN Refuse("punch")
           ELSE IF log_type = "OUT"
                    /\ now - Min(Times(today_checkins, "IN")) > MAX_SHIFT_HOURS
           THEN Refuse("punch")
           ELSE Begin(r, "punch", log_type)

\* the try block of the request: insert at now_datetime(), commit, sync, reply
InsertAndReply(r) ==
    \E q \in inflight :
        /\ q.id = r
        /\ RecordRows(q.op, now, q.log_type)
        /\ inflight' = inflight \ {q}
        /\ UNCHANGED <<synced, leave_types, leave_allocations, leave_applications,
                       salary_slips, salary_structure_assignment, payroll>>

----------------------------------------------------------------------------
\* api/v1/attendance.py

\* a caller's timestamp is NoTime (none given) or <<t>>
_validate_timestamp(timestamp) ==
    IF timestamp = NoTime THEN now
    ELSE IF (timestamp[1] - now) * 3600 > max_future_seconds THEN now
    ELSE timestamp[1]

\* the timestamps a caller sends: none, one an hour ahead, ones 4 and 20 hours back
TimestampInputs ==
    {NoTime} \cup {<<t>> : t \in {now + 1} \cup ({now - 4, now - 20} \cap Nat)}

V1Punch(ts) ==
    LET timestamp == _validate_timestamp(ts)
        today == DateOf(now)
        today_checkins == TodayCheckins(checkins, today)
        has_in == Times(today_checkins, "IN") # {}
        has_out == Times(today_checkins, "OUT") # {}
    IN  IF has_in /\ has_out
        THEN Refuse("v1.punch")
        ELSE IF ~has_in
        THEN Record("v1.punch", timestamp, "IN")
        ELSE IF timestamp - Min(Times(today_checkins, "IN")) > MAX_SHIFT_HOURS
        THEN Refuse("v1.punch")
        ELSE Record("v1.punch", timestamp, "OUT")

----------------------------------------------------------------------------
\* attendance/sync.py: the manual sync endpoint

sync_attendance_from_checkins(att, cks, date) ==
    LET logs == CheckinsBetween(cks, date)
    IN  IF logs = <<>> THEN att ELSE create_or_update_attendance(att, date, logs)

\* try: sync_attendance_from_checkins()  except Exception: log_error, error reply
SyncTodayAttendance ==
    LET raises == create_or_update_attendance_raises(CheckinsBetween(checkins, DateOf(now)))
    IN  /\ Len(attendance) < MaxAttendance
        /\ attendance' = IF raises THEN attendance
                         ELSE sync_attendance_from_checkins(attendance, checkins, DateOf(now))
        /\ error_log' = IF raises THEN Append(error_log, "Attendance Sync Error")
                        ELSE error_log
        /\ resp' = Reply("sync_today_attendance", ~raises, "none")
        /\ UNCHANGED <<now, checkins, default_shift, half_day_leave, eval,
                       attendance_write_raises, other>>

\* (to_date - from_date).days > 31
range_exceeds_limit_Inclusive(from_date, to_date) == to_date - from_date >= RangeLimitDays

range_exceeds_limit(from_date, to_date) == to_date - from_date > RangeLimitDays

\* while current_date <= to_date: sync_attendance_from_checkins(date=current_date);
\* current_date = add_days(current_date, 1).  `done` lists the dates handed to
\* the sync; a sync that raises ends the loop.
RECURSIVE sync_date_range_loop(_, _, _, _, _)
sync_date_range_loop(att, cks, current_date, to_date, done) ==
    IF current_date > to_date
    THEN [attendance |-> att, synced |-> done, raised |-> FALSE]
    ELSE IF create_or_update_attendance_raises(CheckinsBetween(cks, current_date))
    THEN [attendance |-> att, synced |-> Append(done, current_date), raised |-> TRUE]
    ELSE sync_date_range_loop(sync_attendance_from_checkins(att, cks, current_date),
                              cks, current_date + 1, to_date, Append(done, current_date))

\* the to_date values a caller sends with a from_date: the day before, the same
\* day, the next day, and the two dates around the limit
RangeToDates(from_date) ==
    {from_date - 1, from_date, from_date + 1,
     from_date + RangeLimitDays, from_date + RangeLimitDays + 1}

SyncDateRange(from_date, to_date) ==
    LET run == IF range_exceeds_limit(from_date, to_date)
               THEN [attendance |-> attendance, synced |-> <<>>, raised |-> TRUE]
               ELSE sync_date_range_loop(attendance, checkins, from_date, to_date, <<>>)
    IN  /\ Len(run.attendance) <= MaxAttendance
        /\ run.raised => Len(error_log) < MaxErrorLog
        /\ attendance' = run.attendance
        /\ synced' = run.synced
        /\ error_log' = IF run.raised THEN Append(error_log, "Attendance Sync Error")
                        ELSE error_log
        /\ resp' = Reply("sync_date_range", ~run.raised, "none")
        /\ UNCHANGED <<now, checkins, default_shift, half_day_leave, eval,
                       attendance_write_raises, inflight, leave_types,
                       leave_allocations, leave_applications, salary_slips,
                       salary_structure_assignment, payroll>>

----------------------------------------------------------------------------
\* An Employee Checkin saved outside the clock endpoints (the desk form, a
\* device integration): the framework stores the row and dispatches doc_events

DeskInsertCheckin(lt) ==
    LET ins == InsertCheckin(attendance, checkins, [time |-> now, log_type |-> lt])
    IN  /\ Room
        /\ checkins' = ins.checkins
        /\ attendance' = ins.attendance
        /\ error_log' = error_log \o ins.logged
        /\ resp' = Reply("insert", TRUE, lt)
        /\ UNCHANGED <<now, default_shift, half_day_leave, eval,
                       attendance_write_raises, other>>

\* An Employee Checkin removed from the desk: doc_events has no on_trash
\* handler, so nothing is synced
DeskDeleteCheckin(i) ==
    /\ i \in DOMAIN checkins
    /\ checkins' = SubSeq(checkins, 1, i - 1) \o SubSeq(checkins, i + 1, Len(checkins))
    /\ resp' = Reply("delete", TRUE, checkins[i].log_type)
    /\ UNCHANGED <<now, attendance, default_shift, half_day_leave, eval,
                   attendance_write_raises, error_log, other>>

\* the log_type of an Employee Checkin changed from the desk: doc_events has
\* no on_update handler, so nothing is synced
DeskEditCheckin(i) ==
    LET log_type == IF checkins[i].log_type = "IN" THEN "OUT" ELSE "IN"
    IN  /\ i \in DOMAIN checkins
        /\ checkins' = [checkins EXCEPT ![i].log_type = log_type]
        /\ resp' = Reply("edit", TRUE, log_type)
        /\ UNCHANGED <<now, attendance, default_shift, half_day_leave, eval,
                       attendance_write_raises, error_log, other>>

----------------------------------------------------------------------------
\* What a whitelisted function hands to its caller: a dictionary with a
\* success flag, nothing (None), or an exception

ReturnedDict(op, success) == [op |-> op, returned |-> "dict", success |-> success]

ReturnedNone(op) == [op |-> op, returned |-> "None", success |-> FALSE]

RaisedToCaller(op) == [op |-> op, returned |-> "exception", success |-> FALSE]

----------------------------------------------------------------------------
\* api/__init__.py: leave.  Dates are day numbers, a year has 365 days.

YearOf(d) == d \div 365

\* WHERE leave_type = %s AND from_date <= %s AND to_date >= %s AND docstatus = 1
covered(allocations, leave_type, from_date, to_date) ==
    \E a \in allocations :
        a.leave_type = leave_type /\ a.from_date <= from_date /\ a.to_date >= to_date

\* alloc.insert() / alloc.submit() raise for a leave type without pay and for an
\* allocation that overlaps one of the same leave type
AllocationRaises(allocations, alloc) ==
    \/ alloc.leave_type \in leave_types.is_lwp
    \/ \E a \in allocations :
            /\ a.leave_type = alloc.leave_type
            /\ a.from_date <= alloc.to_date
            /\ alloc.from_date <= a.to_date

_ensure_leave_allocation(allocations, leave_type, from_date, to_date) ==
    IF covered(allocations, leave_type, from_date, to_date)
    THEN [raised |-> FALSE, leave_allocations |-> allocations]
    ELSE IF leave_type \notin leave_types.names
    THEN [raised |-> TRUE, leave_allocations |-> allocations]
    ELSE LET year == YearOf(from_date)
             alloc == [leave_type |-> leave_type,
                       from_date |-> year * 365, to_date |-> year * 365 + 364]
         IN  IF AllocationRaises(allocations, alloc)
             THEN [raised |-> FALSE, leave_allocations |-> allocations]
             ELSE [raised |-> FALSE, leave_allocations |-> allocations \cup {alloc}]

\* leave.insert() raises for an unknown leave type, for a to_date before the
\* from_date, for dates that overlap an application already made, and for a
\* paid leave type without an allocation that covers the dates
ApplicationRaises(allocations, leave) ==
    \/ leave.leave_type \notin leave_types.names
    \/ leave.to_date < leave.from_date
    \/ \E i \in DOMAIN leave_applications :
            /\ leave_applications[i].from_date <= leave.to_date
            /\ leave.from_date <= leave_applications[i].to_date
    \/ /\ leave.leave_type \notin leave_types.is_lwp
       /\ ~covered(allocations, leave.leave_type, leave.from_date, leave.to_date)

\* the leave types and the dates a caller sends
LeaveTypeInputs == leave_types.names \cup {"Sabbatical"}

LeaveDateInputs == {0, 1, 364, 365}

apply_leave(leave_type, from_date, to_date) ==
    LET ensure == _ensure_leave_allocation(leave_allocations, leave_type, from_date, to_date)
        leave == [leave_type |-> leave_type, from_date |-> from_date, to_date |-> to_date]
    IN  /\ Len(leave_applications) < MaxLeaveApplications
        /\ IF ensure.raised
           THEN /\ resp' = RaisedToCaller("apply_leave")
                /\ UNCHANGED <<leave_allocations, leave_applications>>
           ELSE /\ leave_allocations' = ensure.leave_allocations
                /\ IF ApplicationRaises(ensure.leave_allocations, leave)
                   THEN /\ resp' = ReturnedDict("apply_leave", FALSE)
                        /\ UNCHANGED leave_applications
                   ELSE /\ resp' = ReturnedDict("apply_leave", TRUE)
                        /\ leave_applications' = Append(leave_applications, leave)
        /\ UNCHANGED <<now, checkins, attendance, default_shift, half_day_leave, eval,
                       attendance_write_raises, error_log, synced, inflight, leave_types,
                       salary_slips, salary_structure_assignment, payroll>>

----------------------------------------------------------------------------
\* payroll/payslip_generator.py

\* PayslipGenerator.generate_payslip: the slip of the month, or None after an
\* exception (calculate_payroll throws without a Salary Structure Assignment)
generate_payslip(slips, month) ==
    IF month \in slips
    THEN [slip |-> <<month>>, salary_slips |-> slips, logged |-> <<>>]
    ELSE IF ~salary_structure_assignment
    THEN [slip |-> <<>>, salary_slips |-> slips, logged |-> <<"Payslip Generation Error">>]
    ELSE [slip |-> <<month>>, salary_slips |-> slips \cup {month}, logged |-> <<>>]

generate_payslip_for_employee(month) ==
    LET gen == generate_payslip(salary_slips, month)
    IN  /\ Len(error_log \o gen.logged) <= MaxErrorLog
        /\ salary_slips' = gen.salary_slips
        /\ error_log' = error_log \o gen.logged
        /\ resp' = IF gen.slip # <<>>
                   THEN ReturnedDict("generate_payslip_for_employee", TRUE)
                   ELSE ReturnedNone("generate_payslip_for_employee")
        /\ UNCHANGED <<now, checkins, attendance, default_shift, half_day_leave, eval,
                       attendance_write_raises, synced, inflight, leave_types,
                       leave_allocations, leave_applications,
                       salary_structure_assignment, payroll>>

----------------------------------------------------------------------------
\* payroll/calculator.py.  The pay period is one month: its days are numbered
\* from 1 (start_date) to total_days (end_date); a date before the month is
\* below 1, a date after it above total_days.  Day counts that can be halves
\* (lop_days, payment days) are kept doubled.

\* date(year, month, d).weekday(): 0 is Monday, 6 is Sunday
weekday(p, d) == (p.first_weekday + d - 1) % 7

\* SELECT ... FROM `tabAttendance` WHERE ... AND docstatus = 1
_load_attendance(att) == SelectSeq(att, LAMBDA a : a.docstatus = 1)

\* SELECT name FROM `tabLeave Type` WHERE is_lwp = 1
lop_leave_types == leave_types.is_lwp

\* what one Attendance row adds to lop_days (doubled) in _calculate_working_days
lop_of_row_AnyHalfDay(a) ==
    IF a.status = "Half Day" THEN 1
    ELSE IF a.status = "On Leave"
    THEN IF a.leave_type # "" /\ a.leave_type \in lop_leave_types THEN 2 ELSE 0
    ELSE IF a.status = "Absent" THEN 2
    ELSE 0

lop_of_row(a) ==
    IF a.status = "Present" THEN 0
    ELSE IF a.status = "Half Day"
    THEN IF a.leave_type # "" /\ a.leave_type \in lop_leave_types THEN 1 ELSE 0
    ELSE IF a.status = "On Leave"
    THEN IF a.leave_type # "" /\ a.leave_type \in lop_leave_types THEN 2 ELSE 0
    ELSE IF a.status = "Absent" THEN 2
    ELSE 0

\* for att in self.attendance_data: ...
RECURSIVE lop_of_rows(_)
lop_of_rows(rows) ==
    IF rows = <<>> THEN 0 ELSE lop_of_row(Head(rows)) + lop_of_rows(Tail(rows))

_calculate_working_days(p, att) ==
    LET total_days == p.total_days
        holiday_count == Cardinality(p.holidays)
        sundays == Cardinality({d \in 1 .. total_days : weekday(p, d) = 6})
        attendance_data == _load_attendance(att)
    IN  [p EXCEPT !.loaded = TRUE,
                  !.working_days = total_days - sundays - holiday_count,
                  !.half_days = Cardinality({i \in DOMAIN attendance_data :
                                    attendance_data[i].status = "Half Day"}),
                  !.lop_days = lop_of_rows(attendance_data)]

_is_holiday_or_weekend(p, d) == weekday(p, d) = 6 \/ d \in p.holidays

_calculate_inactive_days(p) ==
    IF p.date_of_joining # NoTime /\ p.date_of_joining[1] > 1
    THEN LET joining_date == p.date_of_joining[1]
             relieving_date == IF p.relieving_date # NoTime THEN p.relieving_date[1]
                               ELSE p.total_days
             active_start == Max({1, joining_date})
             active_end == Min({p.total_days, relieving_date})
         IN  IF active_start > active_end THEN p.working_days
             ELSE Cardinality({d \in 1 .. active_start - 1 : ~_is_holiday_or_weekend(p, d)})
                  + Cardinality({d \in active_end + 1 .. p.total_days :
                                    ~_is_holiday_or_weekend(p, d)})
    ELSE 0

\* max(0, self.working_days - self.lop_days - inactive_days), doubled
get_payment_days(p) ==
    Max({0, 2 * p.working_days - p.lop_days - 2 * _calculate_inactive_days(p)})

\* SELECT status, leave_type, COUNT(*) ... GROUP BY status, leave_type
lop_summary_groups(att) ==
    LET rows == _load_attendance(att)
    IN  {[status |-> rows[i].status, leave_type |-> rows[i].leave_type,
          count |-> Cardinality({j \in DOMAIN rows :
                        /\ rows[j].status = rows[i].status
                        /\ rows[j].leave_type = rows[i].leave_type})] : i \in DOMAIN rows}

\* what one group adds to lop_days (doubled) in get_lop_summary
lop_of_group(g) ==
    IF g.status = "Absent" THEN 2 * g.count
    ELSE IF g.status = "On Leave" /\ g.leave_type \in lop_leave_types THEN 2 * g.count
    ELSE IF g.status = "Half Day" /\ g.leave_type \in lop_leave_types THEN g.count
    ELSE 0

RECURSIVE lop_of_groups(_)
lop_of_groups(groups) ==
    IF groups = {} THEN 0
    ELSE LET g == CHOOSE x \in groups : TRUE
         IN  lop_of_group(g) + lop_of_groups(groups \ {g})

get_lop_summary(att) == lop_of_groups(lop_summary_groups(att))

\* PayrollCalculator.load_data()
LoadData ==
    /\ ~payroll.loaded
    /\ payroll' = _calculate_working_days(payroll, attendance)
    /\ UNCHANGED <<now, checkins, attendance, resp, default_shift, half_day_leave, eval,
                   attendance_write_raises, error_log, synced, inflight, leave_types,
                   leave_allocations, leave_applications, salary_slips,
                   salary_structure_assignment>>

\* PayrollCalculator.get_payment_days(), after load_data
GetPaymentDays ==
    /\ payroll.loaded
    /\ payroll.payment_days = NoTime
    /\ payroll' = [payroll EXCEPT !.payment_days = <<get_payment_days(payroll)>>]
    /\ UNCHANGED <<now, checkins, attendance, resp, default_shift, half_day_leave, eval,
                   attendance_write_raises, error_log, synced, inflight, leave_types,
                   leave_allocations, leave_applications, salary_slips,
                   salary_structure_assignment>>

\* get_lop_summary(employee, start_date, end_date) of the same period
GetLopSummary ==
    /\ payroll.lop_summary = NoTime
    /\ payroll' = [payroll EXCEPT !.lop_summary = <<get_lop_summary(attendance)>>]
    /\ UNCHANGED <<now, checkins, attendance, resp, default_shift, half_day_leave, eval,
                   attendance_write_raises, error_log, synced, inflight, leave_types,
                   leave_allocations, leave_applications, salary_slips,
                   salary_structure_assignment>>

----------------------------------------------------------------------------
\* determine_attendance_status applied to one input

DetermineStatus ==
    /\ eval.status = "none"
    /\ eval' = [eval EXCEPT !.status =
                    determine_attendance_status(default_shift, 0 \in half_day_leave,
                                                eval.working_hours)]
    /\ UNCHANGED <<now, checkins, attendance, resp, default_shift, half_day_leave,
                   attendance_write_raises, error_log, other>>

----------------------------------------------------------------------------
\* Time passes between requests

Tick ==
    /\ now + TickHours <= MaxNow
    /\ now' = now + TickHours
    /\ UNCHANGED <<checkins, attendance, resp, default_shift, half_day_leave, eval,
                   attendance_write_raises, error_log, other>>

----------------------------------------------------------------------------
\* Specifications

NoEval == [working_hours |-> 0, status |-> "none"]

\* an Attendance saved from the desk and not submitted
Draft(date) ==
    [attendance_date |-> date, status |-> "Present", working_hours |-> 0,
     in_time |-> NoTime, out_time |-> NoTime, docstatus |-> 0]

\* the leave types of the site; Leave Without Pay has is_lwp = 1
LeaveTypes ==
    [names |-> {"Casual Leave", "Leave Without Pay"}, is_lwp |-> {"Leave Without Pay"}]

NoPayroll == [loaded |-> FALSE]

\* no range sync, no request in flight, no leave, no payroll yet
InitOther ==
    /\ synced = <<>>
    /\ inflight = {}
    /\ leave_types = LeaveTypes
    /\ leave_allocations = {}
    /\ leave_applications = <<>>
    /\ salary_slips = {}
    /\ salary_structure_assignment = TRUE
    /\ payroll = NoPayroll

Init ==
    /\ now = 0
    /\ checkins = <<>>
    /\ attendance \in {<<>>, <<Draft(0)>>}
    /\ resp = Reply("none", TRUE, "none")
    /\ default_shift \in BOOLEAN
    /\ half_day_leave \in {{}, {0}}
    /\ eval = NoEval
    /\ attendance_write_raises = FALSE
    /\ error_log = <<>>
    /\ InitOther

\* the portal clock endpoints alone
NextPortal == ClockIn \/ ClockOut \/ Punch \/ Tick

SpecPortal == Init /\ [][NextPortal]_vars

\* the v1 punch endpoint alone
NextV1 == (\E ts \in TimestampInputs : V1Punch(ts)) \/ Tick

SpecV1 == Init /\ [][NextV1]_vars

\* every endpoint that records a clock-in or a clock-out
NextClock ==
    ClockIn \/ ClockOut \/ Punch \/ (\E ts \in TimestampInputs : V1Punch(ts)) \/ Tick

SpecClock == Init /\ [][NextClock]_vars

\* the portal clock endpoints and the manual sync
NextSync == ClockIn \/ ClockOut \/ Punch \/ SyncTodayAttendance \/ Tick

SpecSync == Init /\ [][NextSync]_vars

\* determine_attendance_status on every input
InitStatus ==
    /\ now = 0
    /\ checkins = <<>>
    /\ attendance = <<>>
    /\ resp = Reply("none", TRUE, "none")
    /\ default_shift \in BOOLEAN
    /\ half_day_leave \in {{}, {0}}
    /\ eval \in [working_hours : (0 - MaxHours) .. MaxHours, status : {"none"}]
    /\ attendance_write_raises = FALSE
    /\ error_log = <<>>
    /\ InitOther

SpecStatus == InitStatus /\ [][DetermineStatus]_vars

\* the portal clock endpoints on a site where writes to `tabAttendance` may be
\* rejected
InitFaulty ==
    /\ now = 0
    /\ checkins = <<>>
    /\ attendance \in {<<>>, <<Draft(0)>>}
    /\ resp = Reply("none", TRUE, "none")
    /\ default_shift \in BOOLEAN
    /\ half_day_leave \in {{}, {0}}
    /\ eval = NoEval
    /\ attendance_write_raises \in BOOLEAN
    /\ error_log = <<>>
    /\ InitOther

SpecFaulty == InitFaulty /\ [][NextPortal]_vars

\* an employee without a draft Attendance and without leave
InitRange ==
    /\ now = 0
    /\ checkins = <<>>
    /\ attendance = <<>>
    /\ resp = Reply("none", TRUE, "none")
    /\ default_shift \in BOOLEAN
    /\ half_day_leave = {}
    /\ eval = NoEval
    /\ attendance_write_raises = FALSE
    /\ error_log = <<>>
    /\ InitOther

\* clock_in, clock_out and the range sync, within one hour of day 0
NextRange ==
    \/ ClockIn
    \/ ClockOut
    \/ \E from_date \in 0 .. MaxFromDate :
            \E to_date \in RangeToDates(from_date) : SyncDateRange(from_date, to_date)

SpecRange == InitRange /\ [][NextRange]_vars

\* leave applications and payslips, with or without a Salary Structure Assignment
InitLeavePay ==
    /\ now = 0
    /\ checkins = <<>>
    /\ attendance = <<>>
    /\ resp = Reply("none", TRUE, "none")
    /\ default_shift = FALSE
    /\ half_day_leave = {}
    /\ eval = NoEval
    /\ attendance_write_raises = FALSE
    /\ error_log = <<>>
    /\ synced = <<>>
    /\ inflight = {}
    /\ leave_types = LeaveTypes
    /\ leave_allocations = {}
    /\ leave_applications = <<>>
    /\ salary_slips = {}
    /\ salary_structure_assignment \in BOOLEAN
    /\ payroll = NoPayroll

NextLeavePay ==
    \/ \E leave_type \in LeaveTypeInputs :
            \E from_date \in LeaveDateInputs : \E to_date \in LeaveDateInputs :
                apply_leave(leave_type, from_date, to_date)
    \/ \E month \in 1 .. MaxMonth : generate_payslip_for_employee(month)

SpecLeavePay == InitLeavePay /\ [][NextLeavePay]_vars

\* a PayrollCalculator as __init__ leaves it, with what it reads from the
\* calendar, the holiday list and the Employee
PayrollCalculator(total_days, first_weekday, holidays, date_of_joining, relieving_date) ==
    [total_days |-> total_days, first_weekday |-> first_weekday, holidays |-> holidays,
     date_of_joining |-> date_of_joining, relieving_date |-> relieving_date,
     loaded |-> FALSE, working_days |-> 0, lop_days |-> 0, half_days |-> 0,
     payment_days |-> NoTime, lop_summary |-> NoTime]

\* the holidays of a list made of weekly offs
HolidaysOn(total_days, first_weekday, offs) ==
    {d \in 1 .. total_days : (first_weekday + d - 1) % 7 \in offs}

\* no weekly off, Sunday, Saturday and Sunday, and a month without a working day
WeeklyOffInputs == {{}, {6}, {5, 6}, 0 .. 6}

\* months of every length, beginning on a Monday or a Sunday
PayrollInputs ==
    {PayrollCalculator(total_days, first_weekday,
                       HolidaysOn(total_days, first_weekday, offs), joining, relieving) :
        total_days \in 28 .. 31, first_weekday \in {0, 6}, offs \in WeeklyOffInputs,
        joining \in {NoTime, <<15>>, <<40>>}, relieving \in {NoTime, <<20>>}}

AttendanceRowInputs ==
    [status : {"Present", "Half Day", "On Leave", "Absent"},
     leave_type : {"", "Casual Leave", "Leave Without Pay"},
     docstatus : {1, 2}]

AttendanceInputs == UNION {[1 .. n -> AttendanceRowInputs] : n \in 0 .. MaxAttendanceRows}

\* get_payment_days on every month, holiday list and employee, over submitted rows
InitPaymentDays ==
    /\ now = 0
    /\ checkins = <<>>
    /\ attendance \in {a \in AttendanceInputs : \A i \in DOMAIN a : a[i].docstatus = 1}
    /\ resp = Reply("none", TRUE, "none")
    /\ default_shift = FALSE
    /\ half_day_leave = {}
    /\ eval = NoEval
    /\ attendance_write_raises = FALSE
    /\ error_log = <<>>
    /\ synced = <<>>
    /\ inflight = {}
    /\ leave_types = LeaveTypes
    /\ leave_allocations = {}
    /\ leave_applications = <<>>
    /\ salary_slips = {}
    /\ salary_structure_assignment = TRUE
    /\ payroll \in PayrollInputs

SpecPaymentDays == InitPaymentDays /\ [][LoadData \/ GetPaymentDays]_vars

\* the two LOP computations on every set of Attendance rows of a 31-day month
InitLop ==
    /\ now = 0
    /\ checkins = <<>>
    /\ attendance \in AttendanceInputs
    /\ resp = Reply("none", TRUE, "none")
    /\ default_shift = FALSE
    /\ half_day_leave = {}
    /\ eval = NoEval
    /\ attendance_write_raises = FALSE
    /\ error_log = <<>>
    /\ synced = <<>>
    /\ inflight = {}
    /\ leave_types = LeaveTypes
    /\ leave_allocations = {}
    /\ leave_applications = <<>>
    /\ salary_slips = {}
    /\ salary_structure_assignment = TRUE
    /\ payroll = PayrollCalculator(31, 0, {}, NoTime, NoTime)

SpecLop == InitLop /\ [][LoadData \/ GetLopSummary]_vars

\* clock_in and punch requests of the employee that interleave
NextConcurrent ==
    \/ \E r \in 1 .. MaxRequests : ClockInRead(r)
    \/ \E r \in 1 .. MaxRequests : PunchRead(r)
    \/ \E r \in 1 .. MaxRequests : InsertAndReply(r)
    \/ Tick

SpecConcurrent == Init /\ [][NextConcurrent]_vars

\* clock_in and clock_out, checkins edited and removed from the desk, and the
\* manual sync, within one hour of day 0
NextResync ==
    \/ ClockIn
    \/ ClockOut
    \/ \E i \in 1 .. MaxCheckins : DeskDeleteCheckin(i)
    \/ \E i \in 1 .. MaxCheckins : DeskEditCheckin(i)
    \/ SyncTodayAttendance

SpecResync == Init /\ [][NextResync]_vars

\* every way an Employee Checkin is stored from a single request, and the
\* manual sync
Next ==
    \/ ClockIn
    \/ ClockOut
    \/ Punch
    \/ \E ts \in TimestampInputs : V1Punch(ts)
    \/ SyncTodayAttendance
    \/ \E lt \in {"IN", "OUT"} : DeskInsertCheckin(lt)
    \/ Tick

Spec == Init /\ [][Next]_vars

----------------------------------------------------------------------------
\* Properties

Ins(d) == Times(TodayCheckins(checkins, d), "IN")

Outs(d) == Times(TodayCheckins(checkins, d), "OUT")

CountOn(d, lt) ==
    Cardinality({i \in DOMAIN checkins :
                    DateOf(checkins[i].time) = d /\ checkins[i].log_type = lt})

Refused(op) == resp' = Reply(op, FALSE, "none") /\ checkins' = checkins

Stored(op, lt) ==
    /\ resp' = Reply(op, TRUE, lt)
    /\ checkins' = Append(checkins, [time |-> now, log_type |-> lt])

C2_PunchOrdering ==
    [][Punch =>
        LET d == DateOf(now)
        IN  /\ TodayCheckins(checkins, d) = <<>> => Stored("punch", "IN")
            /\ (Ins(d) # {} /\ Outs(d) = {} /\ now - Min(Ins(d)) <= MAX_SHIFT_HOURS)
                    => Stored("punch", "OUT")
            /\ (Ins(d) # {} /\ Outs(d) = {} /\ now - Min(Ins(d)) > MAX_SHIFT_HOURS)
                    => Refused("punch")
            /\ (Ins(d) # {} /\ Outs(d) # {}) => Refused("punch")
    ]_vars

\* the day has its IN and its OUT, and a third punch was refused
C2_Witness ==
    /\ Ins(DateOf(now)) # {}
    /\ Outs(DateOf(now)) # {}
    /\ resp = Reply("punch", FALSE, "none")

C4_OutWithinMaxShift ==
    \A i \in DOMAIN checkins :
        (checkins[i].log_type = "OUT" /\ Ins(DateOf(checkins[i].time)) # {}) =>
            checkins[i].time - Min(Ins(DateOf(checkins[i].time))) <= MAX_SHIFT_HOURS

\* C5: an open shift (an IN without an OUT) older than MAX_SHIFT_HOURS is
\* clocked out, so a finished day with an IN has an OUT.
C5_AutoClockOut ==
    /\ \A i \in DOMAIN checkins :
            (checkins[i].log_type = "IN" /\ now - checkins[i].time > MAX_SHIFT_HOURS)
                => Outs(DateOf(checkins[i].time)) # {}
    /\ \A d \in Dates : (d < DateOf(now) /\ Ins(d) # {}) => Outs(d) # {}

\* C6: through the v1 punch, whatever timestamps callers send, no date holds
\* more than one IN or more than one OUT checkin of the employee.
C6_V1OneInOneOutPerDay ==
    \A d \in Dates :
        /\ Cardinality({i \in DOMAIN checkins :
                DateOf(checkins[i].time) = d /\ checkins[i].log_type = "IN"}) <= 1
        /\ Cardinality({i \in DOMAIN checkins :
                DateOf(checkins[i].time) = d /\ checkins[i].log_type = "OUT"}) <= 1

\* C7: while a date has a synced clock-in and no clock-out, the Attendance of
\* that date is Present with working_hours 0.
C7_PresentOnClockIn ==
    \A d \in Dates :
        (Ins(d) # {} /\ Outs(d) = {}) =>
            \E e \in ExistingAttendance(attendance, d) :
                attendance[e].status = "Present" /\ attendance[e].working_hours = 0

\* C8: without an approved half-day leave determine_attendance_status returns
\* Present exactly from 8 hours on, Half Day exactly from 4 to below 8 hours
\* and Absent exactly below 4 hours, with or without a default shift.
C8_GlobalThresholds ==
    (eval.status # "none" /\ 0 \notin half_day_leave) =>
        /\ eval.status = "Present" <=> eval.working_hours >= 8
        /\ eval.status = "Half Day" <=> (4 <= eval.working_hours /\ eval.working_hours < 8)
        /\ eval.status = "Absent" <=> eval.working_hours < 4

\* an employee with a default shift and no leave worked exactly 4 hours: Half Day
C8_Witness ==
    /\ default_shift
    /\ 0 \notin half_day_leave
    /\ eval = [working_hours |-> 4, status |-> "Half Day"]

Live(att, d) == ExistingAttendance(att, d)

\* C9: a date never has two non-cancelled Attendance records, and a date whose
\* checkins (with an IN) were synced has exactly one, submitted; a sync that
\* finds a submitted record cancels it and appends a new submitted one, a sync
\* that finds a draft updates and submits it in place.
C9_OneLiveAttendance ==
    /\ [](\A d \in Dates :
            /\ Cardinality(Live(attendance, d)) <= 1
            /\ Ins(d) # {} =>
                    /\ Cardinality(Live(attendance, d)) = 1
                    /\ \A e \in Live(attendance, d) : attendance[e].docstatus = 1)
    /\ [][attendance' # attendance =>
            \E d \in Dates :
                /\ \A e \in Live(attendance, d) :
                        IF attendance[e].docstatus = 1
                        THEN /\ attendance' =
                                    Append([attendance EXCEPT ![e].docstatus = 2],
                                           attendance'[Len(attendance')])
                             /\ Live(attendance', d) = {Len(attendance) + 1}
                        ELSE /\ Len(attendance') = Len(attendance)
                             /\ Live(attendance', d) = {e}
                             /\ \A j \in DOMAIN attendance : j # e => attendance'[j] = attendance[j]
                /\ Live(attendance, d) = {} =>
                        /\ Len(attendance') = Len(attendance) + 1
                        /\ Live(attendance', d) = {Len(attendance')}
                /\ \A e \in Live(attendance', d) : attendance'[e].docstatus = 1
      ]_vars

\* the draft of day 0 was submitted in place by the first sync and cancelled
\* and replaced by the manual sync that followed
C9_Witness ==
    /\ Len(attendance) = 2
    /\ attendance[1].docstatus = 2
    /\ attendance[1].in_time # NoTime
    /\ attendance[2].docstatus = 1
    /\ attendance[2].attendance_date = attendance[1].attendance_date
    /\ resp.op = "sync_today_attendance"

\* C10: whatever stored an Employee Checkin, the date of every IN checkin has a
\* submitted Attendance record made from the checkins.
C10_InsertSyncsAttendance ==
    \A d \in Dates :
        Ins(d) # {} =>
            \E e \in ExistingAttendance(attendance, d) :
                attendance[e].docstatus = 1 /\ attendance[e].in_time # NoTime

\* C11: when the attendance sync raises during clock_in, clock_out or punch,
\* the error is logged, the committed Employee Checkin stays stored and the
\* endpoint reports success.
C11_FailingSyncKeepsCheckin ==
    [][((ClockIn \/ ClockOut \/ Punch)
            /\ checkins' # checkins
            /\ create_or_update_attendance_raises(CheckinsBetween(checkins', DateOf(now))))
        => /\ resp'.ok
           /\ checkins' = Append(checkins, [time |-> now, log_type |-> resp'.log_type])
           /\ error_log' = Append(error_log, "Auto Attendance Sync Error")
           /\ attendance' = attendance
    ]_vars

\* both syncs of a day were rejected: the IN and the OUT are stored, both
\* errors are logged, no Attendance was written and clock_out reported success
C11_Witness ==
    /\ attendance_write_raises
    /\ Len(error_log) = 2
    /\ Ins(DateOf(now)) # {}
    /\ Outs(DateOf(now)) # {}
    /\ ExistingAttendance(attendance, DateOf(now)) = {}
    /\ resp = Reply("clock_out", TRUE, "OUT")

\* the dates from from_date through to_date, ascending; none when to_date is earlier
DatesThrough(from_date, to_date) ==
    [i \in 1 .. (to_date - from_date + 1) |-> from_date + i - 1]

\* C12: sync_date_range over more than 31 days syncs no date, leaves every
\* Attendance as it was and returns an error status; otherwise it syncs
\* exactly the dates from from_date through to_date, each once, in ascending
\* order (none when from_date is after to_date), and returns success.
C12_DateRangeLimit ==
    [][\A from_date \in 0 .. MaxFromDate : \A to_date \in RangeToDates(from_date) :
        SyncDateRange(from_date, to_date) =>
            IF to_date - from_date > 31
            THEN /\ synced' = <<>>
                 /\ attendance' = attendance
                 /\ resp' = Reply("sync_date_range", FALSE, "none")
            ELSE /\ synced' = DatesThrough(from_date, to_date)
                 /\ resp' = Reply("sync_date_range", TRUE, "none")
                 /\ \A d \in Dates :
                        (from_date <= d /\ d <= to_date /\ Ins(d) # {})
                            => \E e \in ExistingAttendance(attendance', d) :
                                    attendance'[e].in_time = <<Min(Ins(d))>>
    ]_vars

\* a range of exactly 31 days was accepted: its 32 dates were synced, and the
\* submitted Attendance of a date with checkins was cancelled and replaced
C12_Witness ==
    /\ resp = Reply("sync_date_range", TRUE, "none")
    /\ Len(synced) = RangeLimitDays + 1
    /\ \E i \in DOMAIN attendance : attendance[i].docstatus = 2
    /\ error_log # <<>>

\* C13: apply_leave and generate_payslip_for_employee hand every outcome to the
\* caller as a dictionary, {success: False, error} on failure: they neither
\* raise nor return nothing.
C13_FailuresAreReturned ==
    resp.op \in {"apply_leave", "generate_payslip_for_employee"} =>
        resp.returned = "dict"

\* C14: after load_data, get_payment_days returns
\* max(0, working_days - lop_days - inactive_days), and
\* 0 <= payment_days <= working_days (day counts doubled).
C14_PaymentDaysBounds ==
    (payroll.loaded /\ payroll.payment_days # NoTime) =>
        LET payment_days == payroll.payment_days[1]
            rest == 2 * payroll.working_days - payroll.lop_days
                        - 2 * _calculate_inactive_days(payroll)
        IN  /\ payment_days = IF rest > 0 THEN rest ELSE 0
            /\ 0 <= payment_days
            /\ payment_days <= 2 * payroll.working_days

\* C15: when punch or clock_in requests of the employee interleave, no day
\* holds more than one IN Employee Checkin afterwards.
C15_OneInPerDayConcurrent ==
    inflight = {} =>
        \A d \in Dates :
            Cardinality({i \in DOMAIN checkins :
                checkins[i].log_type = "IN" /\ DateOf(checkins[i].time) = d}) <= 1

\* C16: after the checkins of a date were edited or removed and the date is
\* synced again, the non-cancelled Attendance of the date carries the in_time,
\* out_time, working_hours and status derived from the checkins the sync
\* reads: none of them when these hold no IN log or are empty.
C16_ResyncFollowsCheckins ==
    [][SyncTodayAttendance =>
        LET d == DateOf(now)
            logs == CheckinsBetween(checkins, d)
            in_times == Times(logs, "IN")
            out_times == Times(logs, "OUT")
        IN  \A e \in ExistingAttendance(attendance', d) :
                IF in_times = {}
                THEN /\ attendance'[e].in_time = NoTime
                     /\ attendance'[e].out_time = NoTime
                     /\ attendance'[e].working_hours = 0
                ELSE /\ attendance'[e].in_time = <<Min(in_times)>>
                     /\ attendance'[e].out_time =
                            (IF out_times = {} THEN NoTime ELSE <<Max(out_times)>>)
                     /\ attendance'[e].working_hours =
                            (IF out_times = {} THEN 0 ELSE Max(out_times) - Min(in_times))
                     /\ attendance'[e].status =
                            determine_attendance_status(default_shift, d \in half_day_leave,
                                attendance'[e].working_hours)
    ]_vars

\* the submitted rows, counted as the claim counts them (doubled)
RECURSIVE LopCount(_)
LopCount(att) ==
    IF att = <<>> THEN 0
    ELSE LET a == Head(att)
             lwp == a.leave_type = "Leave Without Pay"
         IN  (IF a.docstatus # 1 THEN 0
              ELSE IF a.status = "Absent" THEN 2
              ELSE IF a.status = "On Leave" /\ lwp THEN 2
              ELSE IF a.status = "Half Day" /\ lwp THEN 1
              ELSE 0) + LopCount(Tail(att))

\* C17: for the same employee, period and submitted Attendance records,
\* PayrollCalculator.lop_days equals get_lop_summary(...)['lop_days']: an
\* Absent day counts 1, an On Leave day of a leave-without-pay type 1, a Half
\* Day of a leave-without-pay type 0.5, every other record 0 (counts doubled).
C17_LopComputationsAgree ==
    (payroll.loaded /\ payroll.lop_summary # NoTime) =>
        /\ payroll.lop_days = payroll.lop_summary[1]
        /\ payroll.lop_days = LopCount(attendance)

\* two Half Days without pay, one of them cancelled: both computations give 0.5
C17_Witness ==
    /\ payroll.loaded
    /\ payroll.lop_summary = <<1>>
    /\ payroll.lop_days = 1
    /\ Len(attendance) = 2
    /\ \A i \in DOMAIN attendance :
            attendance[i].status = "Half Day" /\ attendance[i].leave_type = "Leave Without Pay"

====
